---- MODULE Spec2Model ----
(***************************************************************************)
(* A model of the PDF-to-Markdown translation service for FEISHU tables:   *)
(* the record lister (feishu_client.py), the record pipeline               *)
(* (pdf_processor.py) and the batch orchestrator with its HTTP handlers    *)
(* and the shared thread pool (app.py).                                    *)
(***************************************************************************)
EXTENDS Naturals, Integers, Sequences, FiniteSets, TLC

VARIABLES
    table,      \* the remote table: a sequence of rows, row i has record_id i
    pageSize,   \* config.SINGLE_PAGE_SIZE, fixed when the process starts
    reqLimit,   \* how many client requests the environment sends
    concurrent, \* whether clients send a request while another is being served
    clients,    \* clients[r]: the calls the client of request r may make
    downloader, \* what serves the download stage: the FeishuClient of
                \* feishu_client.py, or the store's download capability
    req,        \* req[r]: the locals of the handler thread serving request r
    out,        \* out[r]: the SSE frames written so far to a streaming client
    resp,       \* resp[r]: the JSON response of a non-streaming request
    futures,    \* futures[r]: the Future objects request r got from executor.submit
    work_queue, \* executor._work_queue: FIFO of submitted, not yet started work items
    waiter,     \* waiter[r]: the as_completed waiter of request r
    files       \* staged files on disk (files/pdfs, files/zips, files/extracted)

vars == <<table, pageSize, reqLimit, concurrent, downloader, clients, req, out, resp, futures, work_queue, waiter, files>>

----------------------------------------------------------------------------
(* Bounds of the model. *)

\* rows of the table in the general specification
MaxRows == 2
\* rows (all eligible) of the table in the worker-pool specification
NumRecords == 6
\* largest configured page size
MaxPageSize == 2
\* concurrent client requests in the general specification
MaxRequests == 2

(* Program constants. *)

\* ThreadPoolExecutor(max_workers=5)
max_workers == 5

None == "None"

\* the elements of a sequence
Range(seq) == {seq[i] : i \in 1 .. Len(seq)}

----------------------------------------------------------------------------
(* Field values.  A column of a row snapshot is one of these kinds; they   *)
(* stand for the Python values fields.get(COLUMN, {}) can return.          *)

Absent    == "absent"      \* key missing: the default {} is returned
EmptyStr  == "estr"        \* ""
BlankStr  == "blank"       \* "   "
Text      == "text"        \* "x"
Zero      == "zero"        \* 0
Number    == "num"         \* 7
EmptyList == "elist"       \* []
FileList  == "list"        \* [{"file_token": ...}]
BareList  == "list_notok"  \* [{}]: a list whose first item carries no token

FieldValues == {Absent, EmptyStr, BlankStr, Text, Zero, Number, EmptyList,
                FileList, BareList}

\* Python truthiness of a field value
truthy(v) == v \notin {Absent, EmptyStr, Zero, EmptyList}
\* isinstance(v, list)
is_list(v) == v \in {EmptyList, FileList, BareList}
\* isinstance(v, str)
is_str(v) == v \in {EmptyStr, BlankStr, Text}
\* len(v) > 0 of a list
len_pos(v) == v \in {FileList, BareList}
\* not v.strip() of a string
strip_is_empty(v) == v \in {EmptyStr, BlankStr}

\* list_records_eligible with target-file counted as filled whenever truthy
list_records_eligible_truthy(fields) ==
    LET origin_has_value == truthy(fields.origin) /\ is_list(fields.origin)
                              /\ len_pos(fields.origin)
        target_file_empty == ~truthy(fields.tfile)
        target_context_empty == \/ ~truthy(fields.tctx)
                                \/ (is_str(fields.tctx) /\ strip_is_empty(fields.tctx))
    IN origin_has_value /\ target_file_empty /\ target_context_empty

\* the eligibility test written inline in list_records
list_records_eligible(fields) ==
    LET origin_has_value == truthy(fields.origin) /\ is_list(fields.origin)
                              /\ len_pos(fields.origin)
        target_file_empty == \/ ~truthy(fields.tfile)
                             \/ ~is_list(fields.tfile)
                             \/ ~len_pos(fields.tfile)
        target_context_empty == \/ ~truthy(fields.tctx)
                                \/ (is_str(fields.tctx) /\ strip_is_empty(fields.tctx))
    IN origin_has_value /\ target_file_empty /\ target_context_empty

\* streaming_eligible without the test of target-context
streaming_eligible_no_context(fields) ==
    LET origin_has_value == truthy(fields.origin) /\ is_list(fields.origin)
                              /\ len_pos(fields.origin)
        target_file_empty == \/ ~truthy(fields.tfile)
                             \/ ~is_list(fields.tfile)
                             \/ ~len_pos(fields.tfile)
    IN origin_has_value /\ target_file_empty

\* the eligibility test written inline in list_records_streaming
streaming_eligible(fields) ==
    LET origin_has_value == truthy(fields.origin) /\ is_list(fields.origin)
                              /\ len_pos(fields.origin)
        target_file_empty == \/ ~truthy(fields.tfile)
                             \/ ~is_list(fields.tfile)
                             \/ ~len_pos(fields.tfile)
        target_context_empty == \/ ~truthy(fields.tctx)
                                \/ (is_str(fields.tctx) /\ strip_is_empty(fields.tctx))
    IN origin_has_value /\ target_file_empty /\ target_context_empty

----------------------------------------------------------------------------
(* The remote store: cursor based paging over the rows of the table.       *)

\* a row with a text in its name column
Row(i, o, f, c) ==
    [record_id |-> i, name |-> Text, origin |-> o, tfile |-> f, tctx |-> c]

\* number of pages the store serves (an empty table is served as one empty page)
NumPages == IF Len(table) = 0 THEN 1 ELSE (Len(table) + pageSize - 1) \div pageSize

\* response.data.items of page p (1-based)
page_items(p) ==
    LET lo == (p - 1) * pageSize + 1
        hi == IF p * pageSize < Len(table) THEN p * pageSize ELSE Len(table)
    IN SubSeq(table, lo, hi)

\* response.data.page_token of page p: the cursor of the next page, None after the last
next_token(p) == IF p < NumPages THEN p + 1 ELSE 0

----------------------------------------------------------------------------
(* Handler locals, SSE frames and JSON responses.                          *)

Requests == 1 .. MaxRequests

\* the calls a client can make: GET /translate/all, the same with
\* stream=true, GET /translate/record with or without (0) a record_id
BatchCalls == {<<"all", 0>>, <<"stream", 0>>}
RecordCalls(ids) == {<<"record", id>> : id \in ids}
AnyCall == BatchCalls \cup RecordCalls(0 .. Len(table) + 1)

IdleReq ==
    [kind |-> "none", pc |-> "idle", record_id |-> 0,
     page_token |-> 0, page_number |-> 0,
     eligible_records |-> <<>>, page_records |-> <<>>, records |-> <<>>, total |-> 0,
     snap |-> {}, left |-> 0, yielded |-> <<>>, finished_before |-> 0,
     first_finished |-> 0, get_raised |-> FALSE,
     result |-> "none", ran |-> <<>>, staged |-> {},
     processed |-> 0, failed |-> 0, failed_records |-> <<>>]

Frame(type) ==
    [type |-> type, status |-> "", message |-> "",
     page_number |-> 0, records_in_page |-> 0,
     eligible_in_page |-> 0, total_eligible_so_far |-> 0, has_more_pages |-> FALSE,
     total |-> 0, total_pages |-> 0, record_id |-> 0,
     processed |-> 0, failed |-> 0, failed_records |-> <<>>]

NoResponse ==
    [code |-> 0, status |-> "", message |-> "", total |-> 0, processed |-> 0,
     failed |-> 0, has_failed_records |-> FALSE, failed_records |-> <<>>]

\* jsonify({'status': status, 'message': message}), code
JsonStatus(code, status, message) ==
    [NoResponse EXCEPT !.code = code, !.status = status, !.message = message]

NoWaiter == [installed |-> FALSE, finished_futures |-> <<>>]

----------------------------------------------------------------------------
(* The record pipeline (pdf_processor.py).                                 *)

\* get_record_name indexing the list in the name column without testing its
\* length
get_record_name_unchecked(record) ==
    IF record.name \in {EmptyStr, BlankStr, Text, Zero, Number} THEN "name"
    ELSE IF is_list(record.name)
    THEN IF len_pos(record.name) THEN "name" ELSE "IndexError"
    ELSE "record_id"

\* FeishuClient.get_record_name: the display name taken from the name
\* column (a scalar, or the first item of a list), the record id otherwise
get_record_name(record) ==
    IF record.name \in {EmptyStr, BlankStr, Text, Zero, Number} THEN "name"
    ELSE IF is_list(record.name) /\ len_pos(record.name) THEN "name"
    ELSE "record_id"

\* FeishuClient.get_origin_file_token: the token of the first origin attachment
get_origin_file_token(record) ==
    IF is_list(record.origin) /\ len_pos(record.origin)
    THEN IF record.origin = FileList THEN "file_token" ELSE None
    ELSE None

\* PDFProcessor._get_field_id calls self.feishu_client.get_field_id, a method
\* FeishuClient does not define: the call raises AttributeError
get_field_id == "AttributeError"

\* PDFProcessor.download_pdf: the local path of the PDF, or None.  Every
\* exception of the body is caught and turned into None.
download_pdf(record) ==
    IF get_origin_file_token(record) = None THEN None
    ELSE IF get_field_id = "AttributeError" THEN None
    ELSE "pdf_path"

\* what the environment does to one invocation: the transfer of the
\* attachment, the converter, the archive and the store's upload and update
StageOutcomes ==
    [download_ok : BOOLEAN, convert_ok : BOOLEAN, extract_ok : BOOLEAN,
     upload_ok : BOOLEAN]

\* the store capability download_attachment(attachment_ref, destination_dir):
\* the local file, or no file when the transfer fails
download_attachment(file_token, env) ==
    IF env.download_ok THEN "pdf_path" ELSE None

\* the download stage of an invocation: PDFProcessor.download_pdf on the
\* FeishuClient, or the store capability given the token of the attachment
download_stage(record, env) ==
    IF downloader = "FeishuClient" THEN download_pdf(record)
    ELSE IF get_origin_file_token(record) = None THEN None
    ELSE download_attachment(get_origin_file_token(record), env)

\* the outcomes that matter for a record: a stage that is not reached has
\* no outcome to choose
OutcomesFor(record) ==
    {env \in StageOutcomes :
        LET fixed_download == downloader = "FeishuClient"
                                \/ get_origin_file_token(record) = None
            convert_reached == download_stage(record, env) /= None
            extract_reached == convert_reached /\ env.convert_ok
            upload_reached  == extract_reached /\ env.extract_ok
        IN  /\ fixed_download => env.download_ok
            /\ ~convert_reached => env.convert_ok
            /\ ~extract_reached => env.extract_ok
            /\ ~upload_reached => env.upload_ok}

\* what an invocation reports: the value returned ("raise" for an exception
\* that leaves process_record), whether the target columns were written,
\* the staged files left on disk on return, and the stages that were run
Outcome(result, written, staged, ran) ==
    [result |-> result, written |-> written, staged |-> staged, ran |-> ran]

\* a stage that was run, and whether it yielded its result
Ok(stage) == [stage |-> stage, ok |-> TRUE]
Failed(stage) == [stage |-> stage, ok |-> FALSE]

\* process_record without the return after a failed conversion: the
\* extraction is attempted on the missing archive
process_record_no_return(record, env) ==
    LET id == record.record_id
    IN  IF download_stage(record, env) = None
        THEN Outcome("false", FALSE, {}, <<Failed("download")>>)
        ELSE IF ~env.convert_ok
        THEN Outcome("false", FALSE, {},
                     <<Ok("download"), Failed("convert"), Failed("extract")>>)
        ELSE IF ~env.extract_ok
        THEN Outcome("false", FALSE, {<<"extracted", id>>},
                     <<Ok("download"), Ok("convert"), Failed("extract")>>)
        ELSE IF ~env.upload_ok
        THEN Outcome("false", FALSE,
                     {<<"pdf", id>>, <<"zip", id>>, <<"extracted", id>>},
                     <<Ok("download"), Ok("convert"), Ok("extract"), Failed("upload")>>)
        ELSE Outcome("true", TRUE, {<<"zip", id>>},
                     <<Ok("download"), Ok("convert"), Ok("extract"), Ok("upload")>>)

\* process_record without the unlink of the PDF after a failed conversion
process_record_no_unlink(record, env) ==
    LET id == record.record_id
    IN  IF download_stage(record, env) = None
        THEN Outcome("false", FALSE, {}, <<Failed("download")>>)
        ELSE IF ~env.convert_ok
        THEN Outcome("false", FALSE, {<<"pdf", id>>},
                     <<Ok("download"), Failed("convert")>>)
        ELSE IF ~env.extract_ok
        THEN Outcome("false", FALSE, {<<"extracted", id>>},
                     <<Ok("download"), Ok("convert"), Failed("extract")>>)
        ELSE IF ~env.upload_ok
        THEN Outcome("false", FALSE,
                     {<<"pdf", id>>, <<"zip", id>>, <<"extracted", id>>},
                     <<Ok("download"), Ok("convert"), Ok("extract"), Failed("upload")>>)
        ELSE Outcome("true", TRUE, {<<"zip", id>>},
                     <<Ok("download"), Ok("convert"), Ok("extract"), Ok("upload")>>)

\* process_record without the unlink of the archive after a failed extraction
process_record_keep_zip(record, env) ==
    LET id == record.record_id
    IN  IF download_stage(record, env) = None
        THEN Outcome("false", FALSE, {}, <<Failed("download")>>)
        ELSE IF ~env.convert_ok
        THEN Outcome("false", FALSE, {}, <<Ok("download"), Failed("convert")>>)
        ELSE IF ~env.extract_ok
        THEN Outcome("false", FALSE, {<<"zip", id>>, <<"extracted", id>>},
                     <<Ok("download"), Ok("convert"), Failed("extract")>>)
        ELSE IF ~env.upload_ok
        THEN Outcome("false", FALSE,
                     {<<"pdf", id>>, <<"zip", id>>, <<"extracted", id>>},
                     <<Ok("download"), Ok("convert"), Ok("extract"), Failed("upload")>>)
        ELSE Outcome("true", TRUE, {<<"zip", id>>},
                     <<Ok("download"), Ok("convert"), Ok("extract"), Ok("upload")>>)

\* PDFProcessor.process_record.  The name is read before the try block; the
\* four stages run inside it.  A failed download returns False; a failed
\* conversion unlinks the PDF; a failed extraction unlinks the PDF and the
\* archive and leaves the extraction directory; the exception of the upload
\* is caught by the except clause, which removes nothing; after the upload
\* the PDF and the extraction directory are removed, the archive is not.
process_record(record, env) ==
    LET id == record.record_id
    IN  IF get_record_name(record) = "IndexError"
        THEN Outcome("raise", FALSE, {}, <<>>)
        ELSE IF download_stage(record, env) = None
        THEN Outcome("false", FALSE, {}, <<Failed("download")>>)
        ELSE IF ~env.convert_ok
        THEN Outcome("false", FALSE, {}, <<Ok("download"), Failed("convert")>>)
        ELSE IF ~env.extract_ok
        THEN Outcome("false", FALSE, {<<"extracted", id>>},
                     <<Ok("download"), Ok("convert"), Failed("extract")>>)
        ELSE IF ~env.upload_ok
        THEN Outcome("false", FALSE,
                     {<<"pdf", id>>, <<"zip", id>>, <<"extracted", id>>},
                     <<Ok("download"), Ok("convert"), Ok("extract"), Failed("upload")>>)
        ELSE Outcome("true", TRUE, {<<"zip", id>>},
                     <<Ok("download"), Ok("convert"), Ok("extract"), Ok("upload")>>)

\* the staged files an invocation created or replaced: the PDF of a
\* download, the archive of a conversion, the directory extract_context
\* makes before it opens the archive
staged_by(step) ==
    CASE step = Ok("download") -> {"pdf"}
      [] step = Ok("convert") -> {"zip"}
      [] step.stage = "extract" -> {"extracted"}
      [] OTHER -> {}

touched(id, ran) ==
    UNION {{<<dir, id>> : dir \in staged_by(ran[j])} : j \in 1 .. Len(ran)}

\* the staging directories after an invocation returned: of the files it
\* touched, those it did not remove
files_after(fs, id, res) == (fs \ touched(id, res.ran)) \cup res.staged

\* an invocation that has not downloaded yet and whose download yields a file
downloads(record, ran, env) ==
    /\ ran = <<>>
    /\ get_record_name(record) /= "IndexError"
    /\ download_stage(record, env) /= None

\* convert_pdf_to_zip reads the staged PDF: without it no archive is made
convert_possible(record, ran, env) ==
    (ran /= <<>> /\ env.convert_ok) => <<"pdf", record.record_id>> \in files

\* update_record writing the context and not the archive token
update_record_context_only(t, id) ==
    IF id \in 1 .. Len(t)
    THEN [t EXCEPT ![id].tctx = Text]
    ELSE t

\* update_record without the record_id of the request: every row is written
update_record_every_row(t, id) ==
    [i \in 1 .. Len(t) |-> [t[i] EXCEPT !.tfile = FileList, !.tctx = Text]]

\* FeishuClient.upload_zip_and_context: the update of the two target columns
update_record(t, id) ==
    IF id \in 1 .. Len(t)
    THEN [t EXCEPT ![id].tfile = FileList, ![id].tctx = Text]
    ELSE t

\* utils.cleanup_files(): every item of the three staging directories is removed
cleanup_files(fs) == {}

\* cleanup_files tests item.is_file() and then calls item.unlink(), which
\* raises FileNotFoundError when another thread running cleanup_files has
\* removed the item in between; the items not yet visited are left
cleanup_outcomes(r) ==
    {[raised |-> FALSE, left |-> cleanup_files(files)]} \cup
    (IF \E q \in Requests \ {r} : req[q].pc \in {"finish", "cleanup"}
     THEN {[raised |-> TRUE, left |-> files \ {item}] : item \in files}
     ELSE {})

----------------------------------------------------------------------------
(* The shared thread pool (app.py: executor) and concurrent.futures.       *)

\* a Future; finished_seq is the rank at which the as_completed waiter of its
\* request recorded its completion (0 when no waiter recorded it)
Future(record) ==
    [record |-> record, state |-> "PENDING", result |-> "none", finished_seq |-> 0,
     ran |-> <<>>, staged |-> {}]

\* how many futures of request r have finished
FinishedCount(r) ==
    Cardinality({k \in 1 .. Len(futures[r]) : futures[r][k].state = "FINISHED"})

\* the futures a worker thread is executing
RunningFutures ==
    {f \in Requests \X (1 .. NumRecords + MaxRows + 1) :
        /\ f[2] <= Len(futures[f[1]])
        /\ futures[f[1]][f[2]].state = "RUNNING"}

\* a worker thread takes the oldest work item of the queue and starts it
WorkerStart ==
    /\ work_queue /= <<>>
    /\ Cardinality(RunningFutures) < max_workers
    /\ LET f == Head(work_queue)
       IN futures' = [futures EXCEPT ![f[1]][f[2]].state = "RUNNING"]
    /\ work_queue' = Tail(work_queue)
    /\ UNCHANGED <<table, pageSize, reqLimit, concurrent, downloader, clients, req, out, resp, waiter, files>>

\* the work item's call of pdf_processor.process_record advances: a download
\* that yields a file stages the PDF and the invocation goes on; otherwise
\* the call returns, the future is finished with its result and the
\* installed waiter is notified
WorkerFinish ==
    \E f \in RunningFutures : \E env \in OutcomesFor(futures[f[1]][f[2]].record) :
        LET r      == f[1]
            k      == f[2]
            record == futures[r][k].record
            res    == process_record(record, env)
        IN  IF downloads(record, futures[r][k].ran, env)
            THEN /\ futures' = [futures EXCEPT ![r][k].ran = <<Ok("download")>>,
                                                ![r][k].staged = {<<"pdf", record.record_id>>}]
                 /\ files' = files \cup {<<"pdf", record.record_id>>}
                 /\ UNCHANGED <<table, pageSize, reqLimit, concurrent, downloader, clients, req, out, resp, work_queue, waiter>>
            ELSE /\ convert_possible(record, futures[r][k].ran, env)
                 /\ futures' = [futures EXCEPT ![r][k].state = "FINISHED",
                                                ![r][k].result = res.result,
                                                ![r][k].ran = res.ran,
                                                ![r][k].staged = res.staged,
                                                ![r][k].finished_seq =
                                                    IF waiter[r].installed
                                                    THEN FinishedCount(r) + 1
                                                           - req[r].finished_before
                                                    ELSE 0]
                 /\ req' = IF FinishedCount(r) = 0
                           THEN [req EXCEPT ![r].first_finished = k]
                           ELSE req
                 /\ waiter' = IF waiter[r].installed
                              THEN [waiter EXCEPT ![r].finished_futures = Append(@, k)]
                              ELSE waiter
                 /\ table' = IF res.written
                             THEN update_record(table, record.record_id)
                             ELSE table
                 /\ files' = files_after(files, record.record_id, res)
                 /\ UNCHANGED <<pageSize, reqLimit, concurrent, downloader, clients, out, resp, work_queue>>

\* executor.submit(pdf_processor.process_record, record)
executor_submit(r, record) ==
    /\ futures' = [futures EXCEPT ![r] = Append(@, Future(record))]
    /\ work_queue' = Append(work_queue, <<r, Len(futures[r]) + 1>>)

\* as_completed without the waiter: later completions are not recorded
as_completed_unwatched(r) ==
    /\ req' = [req EXCEPT ![r].snap = {k \in 1 .. Len(futures[r]) :
                                         futures[r][k].state = "FINISHED"},
                          ![r].left = Len(futures[r]),
                          ![r].finished_before = FinishedCount(r),
                          ![r].pc = "collect"]
    /\ waiter' = waiter

\* the first step of as_completed(futures): the futures already finished are
\* set aside (they are yielded first, in the iteration order of a set) and a
\* waiter is installed that records later completions in order
as_completed(r) ==
    /\ req' = [req EXCEPT ![r].snap = {k \in 1 .. Len(futures[r]) :
                                         futures[r][k].state = "FINISHED"},
                          ![r].left = Len(futures[r]),
                          ![r].finished_before = FinishedCount(r),
                          ![r].pc = "collect"]
    /\ waiter' = [waiter EXCEPT ![r] = [installed |-> TRUE, finished_futures |-> <<>>]]

\* NextYield handing out the recorded completions in any order
NextYield_unordered(r) ==
    IF req[r].snap /= {} THEN req[r].snap
    ELSE Range(waiter[r].finished_futures)

\* the futures as_completed can yield next
NextYield(r) ==
    IF req[r].snap /= {} THEN req[r].snap
    ELSE IF waiter[r].finished_futures /= <<>> THEN {Head(waiter[r].finished_futures)}
    ELSE {}

\* the waiter after future k was yielded
after_yield(r, k) ==
    IF k \in req[r].snap THEN waiter[r]
    ELSE [waiter[r] EXCEPT !.finished_futures = SelectSeq(@, LAMBDA j : j /= k)]

----------------------------------------------------------------------------
(* GET /translate/all and GET /translate/record arrive.                    *)

Request(r) ==
    /\ r <= reqLimit
    /\ req[r].pc = "idle"
    /\ r > 1 => req[r - 1].pc /= "idle"
    /\ ~concurrent => \A q \in Requests : req[q].pc \in {"idle", "done"}
    /\ \E call \in clients[r] :
        LET kind == call[1]
            id   == call[2]
        IN
        /\ req' = [req EXCEPT ![r].kind = kind,
                              ![r].record_id = id,
                              ![r].pc = CASE kind = "all" -> "list"
                                          [] kind = "stream" -> "stream_start"
                                          [] id = 0 -> "done"
                                          [] OTHER -> "get"]
        /\ resp' = IF kind = "record" /\ id = 0
                   THEN [resp EXCEPT ![r] = JsonStatus(400, "error", "missing_record_id")]
                   ELSE resp
    /\ UNCHANGED <<table, pageSize, reqLimit, concurrent, downloader, clients, out, futures, work_queue, waiter, files>>

----------------------------------------------------------------------------
(* translate_all, stream=false.                                            *)

\* the page a handler fetches next: the first one when page_token is None
PageToFetch(r) == IF req[r].page_token = 0 THEN 1 ELSE req[r].page_token

\* list_records_extend putting the records of a page before the earlier ones
list_records_extend_prepend(eligible_records, records) ==
    SelectSeq(records, list_records_eligible) \o eligible_records

\* the for loop of list_records over the records of one page: the eligible
\* ones are appended to eligible_records
list_records_extend(eligible_records, records) ==
    eligible_records \o SelectSeq(records, list_records_eligible)

\* no_records taking every listing for a non-empty one
no_records_never(records) == FALSE

\* if not records: the test both batch handlers make on the listing
no_records(records) == records = <<>>

\* a listing that returned the records gathered before the store failed
listing_aborted_partial(eligible) == eligible

\* the except clause of the listing loop raises the store error again: the
\* caller is handed no record, whatever the earlier pages held
listing_aborted(eligible) == <<>>


\* one pass of the while loop of list_records; after the last page the
\* handler tests the list and either answers or goes on to submit
ListPage(r) ==
    /\ req[r].pc = "list"
    /\ \E fault \in BOOLEAN :
        LET p        == PageToFetch(r)
            records  == page_items(p)
            eligible == list_records_extend(req[r].eligible_records, records)
            token    == next_token(p)
        IN  IF fault
            THEN /\ req' = [req EXCEPT ![r].records = listing_aborted(req[r].eligible_records),
                                       ![r].pc = "done"]
                 /\ resp' = [resp EXCEPT ![r] = JsonStatus(500, "error", "store_error")]
            ELSE IF token /= 0
            THEN /\ req' = [req EXCEPT ![r].eligible_records = eligible,
                                       ![r].page_token = token]
                 /\ resp' = resp
            ELSE IF no_records(eligible)
            THEN /\ req' = [req EXCEPT ![r].eligible_records = eligible,
                                       ![r].page_token = token,
                                       ![r].records = eligible,
                                       ![r].pc = "done"]
                 /\ resp' = [resp EXCEPT ![r] =
                               [JsonStatus(200, "success", "no_records")
                                  EXCEPT !.total = 0, !.processed = 0, !.failed = 0]]
            ELSE /\ req' = [req EXCEPT ![r].eligible_records = eligible,
                                       ![r].page_token = token,
                                       ![r].records = eligible,
                                       ![r].total = Len(eligible),
                                       ![r].pc = "submit"]
                 /\ resp' = resp
    /\ UNCHANGED <<table, pageSize, reqLimit, concurrent, downloader, clients, out, futures, work_queue, waiter, files>>

\* one pass of the submission loop of translate_all
SubmitAll(r) ==
    /\ req[r].pc = "submit"
    /\ LET i == Len(futures[r]) + 1
       IN /\ executor_submit(r, req[r].records[i])
          /\ req' = [req EXCEPT ![r].pc = IF i = Len(req[r].records)
                                          THEN "as_completed" ELSE "submit"]
    /\ UNCHANGED <<table, pageSize, reqLimit, concurrent, downloader, clients, out, resp, waiter, files>>

\* for future in as_completed(futures): the loop is entered
AllAsCompleted(r) ==
    /\ req[r].kind = "all"
    /\ req[r].pc = "as_completed"
    /\ as_completed(r)
    /\ UNCHANGED <<table, pageSize, reqLimit, concurrent, downloader, clients, out, resp, futures, work_queue, files>>

\* all_collect with the failure branch leaving the counter alone
all_collect_uncounted(rq, record_id, outcome) ==
    CASE outcome = "true" -> [rq EXCEPT !.processed = @ + 1]
      [] OTHER -> [rq EXCEPT !.failed_records = Append(@, record_id)]

\* the body of the collection loop of translate_all for one yielded future
all_collect(rq, record_id, outcome) ==
    CASE outcome = "true" -> [rq EXCEPT !.processed = @ + 1]
      [] outcome = "false" -> [rq EXCEPT !.failed = @ + 1,
                                         !.failed_records = Append(@, record_id)]
      [] OTHER -> [rq EXCEPT !.failed = @ + 1,
                             !.failed_records = Append(@, record_id)]

\* as_completed yields a future and the loop body of translate_all runs
CollectAll(r) ==
    /\ req[r].kind = "all"
    /\ req[r].pc = "collect"
    /\ \E k \in NextYield(r) :
        LET fut == futures[r][k]
            rq  == all_collect(req[r], fut.record.record_id, fut.result)
        IN  /\ req' = [req EXCEPT ![r] = [rq EXCEPT !.snap = @ \ {k},
                                                    !.yielded = Append(@, k),
                                                    !.left = @ - 1,
                                                    !.pc = IF req[r].left = 1
                                                           THEN "finish" ELSE "collect"]]
            /\ waiter' = [waiter EXCEPT ![r] = after_yield(r, k)]
    /\ UNCHANGED <<table, pageSize, reqLimit, concurrent, downloader, clients, out, resp, futures, work_queue, files>>

\* all_summary answering 500 as soon as a record failed
all_summary_failing(rq) ==
    IF rq.failed > 0
    THEN JsonStatus(500, "error", "processed")
    ELSE [JsonStatus(200, "success", "processed")
            EXCEPT !.total = rq.total, !.processed = rq.processed, !.failed = rq.failed,
                   !.has_failed_records = TRUE, !.failed_records = rq.failed_records]

\* the JSON body translate_all returns after the collection loop
all_summary(rq) ==
    [JsonStatus(200, "success", "processed")
        EXCEPT !.total = rq.total, !.processed = rq.processed, !.failed = rq.failed,
               !.has_failed_records = TRUE, !.failed_records = rq.failed_records]

\* cleanup_files() and the final JSON response of translate_all, or the
\* answer of its except clause when cleanup_files() raised
FinishAll(r) ==
    /\ req[r].kind = "all"
    /\ req[r].pc = "finish"
    /\ \E cleanup \in cleanup_outcomes(r) :
        /\ files' = cleanup.left
        /\ resp' = [resp EXCEPT ![r] = IF cleanup.raised
                                       THEN JsonStatus(500, "error", "exception")
                                       ELSE all_summary(req[r])]
    /\ req' = [req EXCEPT ![r].pc = "done"]
    /\ UNCHANGED <<table, pageSize, reqLimit, concurrent, downloader, clients, out, futures, work_queue, waiter>>

----------------------------------------------------------------------------
(* translate_all, stream=true: the generator _stream_progress.             *)

Emit(r, frame) == out' = [out EXCEPT ![r] = Append(@, frame)]

\* the frame of the except clause that wraps the whole generator
error_frame == [Frame("error") EXCEPT !.status = "error", !.message = "exception"]

\* the generator starts: the pagination_start frame
StreamStart(r) ==
    /\ req[r].pc = "stream_start"
    /\ Emit(r, Frame("pagination_start"))
    /\ req' = [req EXCEPT ![r].pc = "stream_list"]
    /\ UNCHANGED <<table, pageSize, reqLimit, concurrent, downloader, clients, resp, futures, work_queue, waiter, files>>

\* the page_info list_records_streaming yields with a page_loaded event
page_info(page_number, records, page_eligible_count, eligible_records, page_token) ==
    [page_number |-> page_number,
     records_in_page |-> Len(records),
     eligible_in_page |-> page_eligible_count,
     total_eligible_so_far |-> Len(eligible_records),
     has_more_pages |-> page_token /= 0]

\* the frame _stream_progress writes for a page_loaded event
page_loaded_frame(info) ==
    [Frame("page_loaded") EXCEPT !.status = "progress",
                                 !.page_number = info.page_number,
                                 !.records_in_page = info.records_in_page,
                                 !.eligible_in_page = info.eligible_in_page,
                                 !.total_eligible_so_far = info.total_eligible_so_far,
                                 !.has_more_pages = info.has_more_pages]

\* the frame _stream_progress writes for the records_ready event
records_ready_frame(total, total_pages) ==
    [Frame("records_ready") EXCEPT !.status = "success", !.total = total,
                                   !.total_pages = total_pages]

\* the for loop of list_records_streaming over the records of one page
streaming_extend(eligible_records, records) ==
    eligible_records \o SelectSeq(records, streaming_eligible)

\* page_records with the bare slice eligible_records[-page_eligible_count:],
\* which is the whole list when the count is 0
page_records_unguarded(eligible_records, page_eligible_count) ==
    SubSeq(eligible_records,
           IF page_eligible_count = 0 THEN 1
           ELSE Len(eligible_records) - page_eligible_count + 1,
           Len(eligible_records))

\* the record list of a page_loaded event: the last page_eligible_count
\* records gathered, none when the page held no eligible record
page_records(eligible_records, page_eligible_count) ==
    IF page_eligible_count > 0
    THEN SubSeq(eligible_records, Len(eligible_records) - page_eligible_count + 1,
                Len(eligible_records))
    ELSE <<>>

\* listing_frame with records_ready yielded inside the loop, for every page
listing_frame_ready_each(page_number, records, count, eligible_records, page_token) ==
    records_ready_frame(Len(eligible_records), page_number)

\* the frame written for the event one pass of the listing loop yields
listing_frame(page_number, records, count, eligible_records, page_token) ==
    IF page_token /= 0
    THEN page_loaded_frame(page_info(page_number, records, count,
                                     eligible_records, page_token))
    ELSE records_ready_frame(Len(eligible_records), page_number)

\* one pass of the while loop of list_records_streaming and the frame
\* _stream_progress writes for the event it yields: page_loaded when the
\* store returned a page token, records_ready after the break otherwise
StreamPage(r) ==
    /\ req[r].pc = "stream_list"
    /\ \E fault \in BOOLEAN :
        LET page_number == req[r].page_number + 1
            p           == PageToFetch(r)
            records     == page_items(p)
            eligible    == streaming_extend(req[r].eligible_records, records)
            count       == Len(eligible) - Len(req[r].eligible_records)
            token       == next_token(p)
        IN  IF fault
            THEN /\ req' = [req EXCEPT ![r].page_number = page_number,
                                       ![r].records = listing_aborted(req[r].eligible_records),
                                       ![r].pc = "done"]
                 /\ Emit(r, error_frame)
            ELSE IF token /= 0
            THEN /\ req' = [req EXCEPT ![r].page_number = page_number,
                                       ![r].eligible_records = eligible,
                                       ![r].page_records = page_records(eligible, count),
                                       ![r].page_token = token]
                 /\ Emit(r, listing_frame(page_number, records, count, eligible, token))
            ELSE /\ req' = [req EXCEPT ![r].page_number = page_number,
                                       ![r].eligible_records = eligible,
                                       ![r].page_token = token,
                                       ![r].page_records = eligible,
                                       ![r].records = eligible,
                                       ![r].total = Len(eligible),
                                       ![r].pc = "stream_listed"]
                 /\ Emit(r, listing_frame(page_number, records, count, eligible, token))
    /\ UNCHANGED <<table, pageSize, reqLimit, concurrent, downloader, clients, resp, futures, work_queue, waiter, files>>

\* after the listing loop: the "no eligible records" error frame and return,
\* or the processing_start frame
StreamListed(r) ==
    /\ req[r].pc = "stream_listed"
    /\ IF no_records(req[r].records)
       THEN /\ Emit(r, [Frame("error") EXCEPT !.status = "error",
                                              !.message = "no_records"])
            /\ req' = [req EXCEPT ![r].pc = "done"]
       ELSE /\ Emit(r, [Frame("processing_start") EXCEPT !.total = req[r].total])
            /\ req' = [req EXCEPT ![r].pc = "stream_submit"]
    /\ UNCHANGED <<table, pageSize, reqLimit, concurrent, downloader, clients, resp, futures, work_queue, waiter, files>>

\* one pass of the submission loop of _stream_progress
StreamSubmit(r) ==
    /\ req[r].pc = "stream_submit"
    /\ LET i == Len(futures[r]) + 1
       IN /\ executor_submit(r, req[r].records[i])
          /\ req' = [req EXCEPT ![r].pc = IF i = Len(req[r].records)
                                          THEN "as_completed" ELSE "stream_submit"]
    /\ UNCHANGED <<table, pageSize, reqLimit, concurrent, downloader, clients, out, resp, waiter, files>>

\* for future in as_completed(futures): the loop is entered
StreamAsCompleted(r) ==
    /\ req[r].kind = "stream"
    /\ req[r].pc = "as_completed"
    /\ as_completed(r)
    /\ UNCHANGED <<table, pageSize, reqLimit, concurrent, downloader, clients, out, resp, futures, work_queue, files>>

\* stream_collect with the failure branch not listing the record
stream_collect_unlisted(rq, record_id, outcome) ==
    CASE outcome = "true" -> [rq EXCEPT !.processed = @ + 1]
      [] OTHER -> [rq EXCEPT !.failed = @ + 1]

\* the counters after the loop body of _stream_progress ran for one future
stream_collect(rq, record_id, outcome) ==
    CASE outcome = "true" -> [rq EXCEPT !.processed = @ + 1]
      [] outcome = "false" -> [rq EXCEPT !.failed = @ + 1,
                                         !.failed_records = Append(@, record_id)]
      [] OTHER -> [rq EXCEPT !.failed = @ + 1,
                             !.failed_records = Append(@, record_id)]

\* progress_frame without the counter of failures
progress_frame_processed_only(rq, record_id, outcome) ==
    [Frame("progress") EXCEPT !.record_id = record_id,
                              !.status = CASE outcome = "true" -> "success"
                                           [] outcome = "false" -> "failed"
                                           [] OTHER -> "error",
                              !.processed = rq.processed,
                              !.total = rq.total]

\* the progress frame of one future, built from the updated counters
progress_frame(rq, record_id, outcome) ==
    [Frame("progress") EXCEPT !.record_id = record_id,
                              !.status = CASE outcome = "true" -> "success"
                                           [] outcome = "false" -> "failed"
                                           [] OTHER -> "error",
                              !.processed = rq.processed,
                              !.failed = rq.failed,
                              !.total = rq.total]

\* as_completed yields a future, the loop body runs and the frame is written
StreamCollect(r) ==
    /\ req[r].kind = "stream"
    /\ req[r].pc = "collect"
    /\ \E k \in NextYield(r) :
        LET fut == futures[r][k]
            rq  == stream_collect(req[r], fut.record.record_id, fut.result)
        IN  /\ req' = [req EXCEPT ![r] = [rq EXCEPT !.snap = @ \ {k},
                                                    !.yielded = Append(@, k),
                                                    !.left = @ - 1,
                                                    !.pc = IF req[r].left = 1
                                                           THEN "finish" ELSE "collect"]]
            /\ waiter' = [waiter EXCEPT ![r] = after_yield(r, k)]
            /\ Emit(r, progress_frame(rq, fut.record.record_id, fut.result))
    /\ UNCHANGED <<table, pageSize, reqLimit, concurrent, downloader, clients, resp, futures, work_queue, files>>

\* the complete frame
complete_frame(rq) ==
    [Frame("complete") EXCEPT !.status = "success", !.total = rq.total,
                              !.processed = rq.processed, !.failed = rq.failed,
                              !.failed_records = rq.failed_records]

\* cleanup_files() and the complete frame of _stream_progress, or the error
\* frame of its except clause when cleanup_files() raised
StreamFinish(r) ==
    /\ req[r].kind = "stream"
    /\ req[r].pc = "finish"
    /\ \E cleanup \in cleanup_outcomes(r) :
        /\ files' = cleanup.left
        /\ Emit(r, IF cleanup.raised THEN error_frame ELSE complete_frame(req[r]))
    /\ req' = [req EXCEPT ![r].pc = "done"]
    /\ UNCHANGED <<table, pageSize, reqLimit, concurrent, downloader, clients, resp, futures, work_queue, waiter>>

----------------------------------------------------------------------------
(* translate_record.                                                       *)

\* the None that get_record_by_id returns in place of a record
NoRecord == Row(0, Absent, Absent, Absent)

\* get_record_by_id handing over the record although the call raised
get_record_by_id_uncaught(id, fault) ==
    IF id \notin 1 .. Len(table) THEN NoRecord ELSE table[id]

\* FeishuClient.get_record_by_id: the record, or None when the store has no
\* such record and when the call raised, which the except clause swallows
get_record_by_id(id, fault) ==
    IF fault \/ id \notin 1 .. Len(table) THEN NoRecord ELSE table[id]

\* record_guard rejecting the targets only when both are filled
record_guard_both_filled(fields) ==
    LET origin_has_value == truthy(fields.origin) /\ is_list(fields.origin)
                              /\ len_pos(fields.origin)
        target_file_empty == \/ ~truthy(fields.tfile)
                             \/ ~is_list(fields.tfile)
                             \/ ~len_pos(fields.tfile)
        target_context_empty == \/ ~truthy(fields.tctx)
                                \/ (is_str(fields.tctx) /\ strip_is_empty(fields.tctx))
    IN  IF ~origin_has_value THEN "no_origin"
        ELSE IF ~(target_file_empty \/ target_context_empty) THEN "targets_filled"
        ELSE "ok"

\* the guard of translate_record: the answer that rejects the record, or "ok"
record_guard(fields) ==
    LET origin_has_value == truthy(fields.origin) /\ is_list(fields.origin)
                              /\ len_pos(fields.origin)
        target_file_empty == \/ ~truthy(fields.tfile)
                             \/ ~is_list(fields.tfile)
                             \/ ~len_pos(fields.tfile)
        target_context_empty == \/ ~truthy(fields.tctx)
                                \/ (is_str(fields.tctx) /\ strip_is_empty(fields.tctx))
    IN  IF ~origin_has_value THEN "no_origin"
        ELSE IF ~(target_file_empty /\ target_context_empty) THEN "targets_filled"
        ELSE "ok"

\* the record is fetched and checked; an accepted record enters
\* pdf_processor.process_record on the handler's own thread
GetRecord(r) ==
    /\ req[r].pc = "get"
    /\ \E fault \in BOOLEAN :
        LET record == get_record_by_id(req[r].record_id, fault)
        IN  IF record = NoRecord
            THEN /\ resp' = [resp EXCEPT ![r] = JsonStatus(404, "error", "not_found")]
                 /\ req' = [req EXCEPT ![r].get_raised = fault,
                                       ![r].pc = "done"]
            ELSE IF record_guard(record) /= "ok"
            THEN /\ resp' = [resp EXCEPT ![r] =
                                JsonStatus(400, "error", record_guard(record))]
                 /\ req' = [req EXCEPT ![r].get_raised = fault,
                                       ![r].pc = "done"]
            ELSE /\ resp' = resp
                 /\ req' = [req EXCEPT ![r].get_raised = fault,
                                       ![r].records = <<record>>,
                                       ![r].pc = "process"]
    /\ UNCHANGED <<table, pageSize, reqLimit, concurrent, downloader, clients, out, futures, work_queue, waiter, files>>

\* process_record on the handler thread: a download that yields a file
\* stages the PDF and the invocation goes on; otherwise it returns to
\* translate_record; an exception that leaves it is answered by the except
\* clause of the handler, without cleanup_files()
RecordProcess(r) ==
    /\ req[r].pc = "process"
    /\ \E env \in OutcomesFor(req[r].records[1]) :
        LET record == req[r].records[1]
            res    == process_record(record, env)
        IN  IF downloads(record, req[r].ran, env)
            THEN /\ req' = [req EXCEPT ![r].ran = <<Ok("download")>>,
                                       ![r].staged = {<<"pdf", record.record_id>>}]
                 /\ files' = files \cup {<<"pdf", record.record_id>>}
                 /\ UNCHANGED <<table, resp>>
            ELSE /\ convert_possible(record, req[r].ran, env)
                 /\ req' = [req EXCEPT ![r].pc = IF res.result = "raise"
                                                 THEN "done" ELSE "cleanup",
                                       ![r].processed = IF res.result = "true" THEN 1 ELSE 0,
                                       ![r].result = res.result,
                                       ![r].ran = res.ran,
                                       ![r].staged = res.staged]
                 /\ resp' = IF res.result = "raise"
                            THEN [resp EXCEPT ![r] = JsonStatus(500, "error", "exception")]
                            ELSE resp
                 /\ table' = IF res.written
                             THEN update_record(table, record.record_id)
                             ELSE table
                 /\ files' = files_after(files, record.record_id, res)
    /\ UNCHANGED <<pageSize, reqLimit, concurrent, downloader, clients, out, futures, work_queue, waiter>>

\* record_answer with the two answers exchanged
record_answer_swapped(success) ==
    IF success
    THEN JsonStatus(500, "error", "record_failed")
    ELSE JsonStatus(200, "success", "record_processed")

\* the answer of translate_record after process_record returned
record_answer(success) ==
    IF success
    THEN JsonStatus(200, "success", "record_processed")
    ELSE JsonStatus(500, "error", "record_failed")

\* cleanup_files() and the answer of translate_record, or the answer of its
\* except clause when cleanup_files() raised
RecordFinish(r) ==
    /\ req[r].pc = "cleanup"
    /\ \E cleanup \in cleanup_outcomes(r) :
        /\ files' = cleanup.left
        /\ resp' = [resp EXCEPT ![r] = IF cleanup.raised
                                       THEN JsonStatus(500, "error", "exception")
                                       ELSE record_answer(req[r].processed = 1)]
    /\ req' = [req EXCEPT ![r].pc = "done"]
    /\ UNCHANGED <<table, pageSize, reqLimit, concurrent, downloader, clients, out, futures, work_queue, waiter>>

----------------------------------------------------------------------------
(* Specifications.                                                         *)

\* the process has just started: no request, an idle pool, empty staging
InitService ==
    /\ req = [r \in Requests |-> IdleReq]
    /\ out = [r \in Requests |-> <<>>]
    /\ resp = [r \in Requests |-> NoResponse]
    /\ futures = [r \in Requests |-> <<>>]
    /\ waiter = [r \in Requests |-> NoWaiter]
    /\ work_queue = <<>>
    /\ files = {}

\* the three columns of the rows of the general specification: eligible,
\* no origin, one target filled
RowKinds ==
    {<<FileList, Absent, Absent>>, <<EmptyList, Absent, Absent>>,
     <<FileList, Absent, Text>>}

\* the tables of n rows whose columns are drawn from kinds
TablesOf(n, kinds) ==
    {[i \in 1 .. n |-> Row(i, c[i][1], c[i][2], c[i][3])] : c \in [1 .. n -> kinds]}

\* the general specification: small tables, concurrent requests
Init ==
    /\ InitService
    /\ \E n \in 0 .. MaxRows : table \in TablesOf(n, RowKinds)
    /\ pageSize \in 1 .. MaxPageSize
    /\ reqLimit = MaxRequests
    /\ concurrent = TRUE
    /\ downloader = "FeishuClient"
    /\ clients = [r \in Requests |-> AnyCall]

\* the listing specification: the same tables, one request after the other
InitList ==
    /\ InitService
    /\ \E n \in 0 .. MaxRows : table \in TablesOf(n, RowKinds)
    /\ pageSize \in 1 .. MaxPageSize
    /\ reqLimit = MaxRequests
    /\ concurrent = FALSE
    /\ downloader = "FeishuClient"
    /\ clients = [r \in Requests |-> AnyCall]

\* the eligibility specification: one row with any snapshot of its columns
InitFields ==
    /\ InitService
    /\ table \in TablesOf(1, FieldValues \X FieldValues \X FieldValues)
    /\ pageSize = 1
    /\ reqLimit = 1
    /\ concurrent = FALSE
    /\ downloader = "FeishuClient"
    /\ clients = [r \in Requests |-> AnyCall]

\* the worker-pool specification: more eligible rows than worker threads
InitPool ==
    /\ InitService
    /\ table \in TablesOf(NumRecords, {<<FileList, Absent, Absent>>})
    /\ pageSize = MaxPageSize
    /\ reqLimit = 1
    /\ concurrent = FALSE
    /\ downloader = "FeishuClient"
    /\ clients = [r \in Requests |-> AnyCall]

\* the rows of the pipeline specification: an attachment with or without a
\* token in origin, empty targets, any value in the name column
PipelineRows ==
    {[Row(1, o, Absent, Absent) EXCEPT !.name = n] :
        o \in {FileList, BareList}, n \in FieldValues}

\* the pipeline specification: one eligible row, requests one after the
\* other, the download stage served by the FeishuClient of the source or by
\* the download capability of the store
InitPipeline ==
    /\ InitService
    /\ \E row \in PipelineRows : table = <<row>>
    /\ pageSize = 1
    /\ reqLimit = MaxRequests
    /\ concurrent = FALSE
    /\ downloader \in {"FeishuClient", "RecordStore"}
    /\ clients = [r \in Requests |-> AnyCall]

\* the end-to-end scenario: row A with an attachment and empty targets, row
\* B without attachment, row C with an attachment and a text in
\* target-context; requests one after the other, the service as built
InitEndToEnd ==
    /\ InitService
    /\ table = <<Row(1, FileList, Absent, Absent), Row(2, EmptyList, Absent, Absent),
                 Row(3, FileList, Absent, Text)>>
    /\ pageSize \in 1 .. MaxPageSize
    /\ reqLimit = MaxRequests
    /\ concurrent = FALSE
    /\ downloader = "FeishuClient"
    /\ clients = [r \in Requests |-> AnyCall]

\* the staging specification: two eligible rows, the store capability as
\* downloader, a batch request and, while it is served, single-record
\* requests for the second row
InitStaging ==
    /\ InitService
    /\ table = <<Row(1, FileList, Absent, Absent), Row(2, FileList, Absent, Absent)>>
    /\ pageSize = MaxPageSize
    /\ reqLimit = MaxRequests
    /\ concurrent = TRUE
    /\ downloader = "RecordStore"
    /\ clients = [r \in Requests |-> IF r = 1 THEN BatchCalls ELSE RecordCalls({2})]


\* the busy-pool specification: as many eligible rows as worker threads, a
\* batch request and, while it is served, single-record requests for the
\* first row
InitBusy ==
    /\ InitService
    /\ table \in TablesOf(max_workers, {<<FileList, Absent, Absent>>})
    /\ pageSize = MaxPageSize
    /\ reqLimit = MaxRequests
    /\ concurrent = TRUE
    /\ downloader = "FeishuClient"
    /\ clients = [r \in Requests |-> IF r = 1 THEN BatchCalls ELSE RecordCalls({1})]

Next ==
    \/ \E r \in Requests : Request(r)
    \/ \E r \in Requests : ListPage(r)
    \/ \E r \in Requests : SubmitAll(r)
    \/ \E r \in Requests : AllAsCompleted(r)
    \/ \E r \in Requests : CollectAll(r)
    \/ \E r \in Requests : FinishAll(r)
    \/ \E r \in Requests : StreamStart(r)
    \/ \E r \in Requests : StreamPage(r)
    \/ \E r \in Requests : StreamListed(r)
    \/ \E r \in Requests : StreamSubmit(r)
    \/ \E r \in Requests : StreamAsCompleted(r)
    \/ \E r \in Requests : StreamCollect(r)
    \/ \E r \in Requests : StreamFinish(r)
    \/ \E r \in Requests : GetRecord(r)
    \/ \E r \in Requests : RecordProcess(r)
    \/ \E r \in Requests : RecordFinish(r)
    \/ WorkerStart
    \/ WorkerFinish

Spec == Init /\ [][Next]_vars

SpecList == InitList /\ [][Next]_vars

SpecFields == InitFields /\ [][Next]_vars

SpecPool == InitPool /\ [][Next]_vars

SpecPipeline == InitPipeline /\ [][Next]_vars

SpecEndToEnd == InitEndToEnd /\ [][Next]_vars

SpecStaging == InitStaging /\ [][Next]_vars

SpecBusy == InitBusy /\ [][Next]_vars

\* the steps of the thread that serves request r
Handler(r) ==
    \/ ListPage(r) \/ SubmitAll(r) \/ AllAsCompleted(r) \/ CollectAll(r) \/ FinishAll(r)
    \/ StreamStart(r) \/ StreamPage(r) \/ StreamListed(r) \/ StreamSubmit(r)
    \/ StreamAsCompleted(r) \/ StreamCollect(r) \/ StreamFinish(r)
    \/ GetRecord(r) \/ RecordProcess(r) \/ RecordFinish(r)

\* the worker-pool specification under fair scheduling: a worker thread that
\* can take or finish a work item does so, and so does every handler thread
\* that can take a step (a pipeline invocation that was started returns)
FairSpecPool ==
    /\ SpecPool
    /\ WF_vars(WorkerStart)
    /\ WF_vars(WorkerFinish)
    /\ \A r \in Requests : WF_vars(Handler(r))

----------------------------------------------------------------------------
(* Vocabulary of the properties.                                           *)

NoDuplicates(seq) == \A i, j \in 1 .. Len(seq) : i /= j => seq[i] /= seq[j]

\* the types of the frames written so far
FrameTypes(r) == [i \in 1 .. Len(out[r]) |-> out[r][i].type]

\* how many frames of a type were written
CountFrames(r, type) == Cardinality({i \in 1 .. Len(out[r]) : out[r][i].type = type})

\* the blocking batch answered with its summary
AllComplete(r) ==
    /\ req[r].kind = "all" /\ req[r].pc = "done"
    /\ resp[r].code = 200 /\ resp[r].message = "processed"

\* the streaming batch ended with the complete frame
StreamComplete(r) ==
    /\ req[r].kind = "stream" /\ req[r].pc = "done"
    /\ out[r] /= <<>> /\ out[r][Len(out[r])].type = "complete"

\* the summary a finished batch reported
Summary(r) == IF req[r].kind = "all" THEN resp[r] ELSE out[r][Len(out[r])]

\* a row that needs processing: an attachment in origin, no archive in
\* target-file, nothing but blanks in target-context
NeedsProcessing(row) ==
    /\ row.origin \in {FileList, BareList}
    /\ row.tfile \notin {FileList, BareList}
    /\ row.tctx \in {Absent, EmptyStr, BlankStr, Zero, EmptyList}

\* the futures of request r whose result the collection loop has consumed
Collected(r) ==
    IF req[r].pc \in {"collect", "finish", "done"}
    THEN {k \in 1 .. Len(futures[r]) :
            /\ futures[r][k].state = "FINISHED"
            /\ k \notin req[r].snap
            /\ k \notin Range(waiter[r].finished_futures)}
    ELSE {}

\* the record ids of a set of futures of request r
RecordIds(r, ks) == {futures[r][k].record.record_id : k \in ks}

----------------------------------------------------------------------------
(* Properties of the batch orchestrator.                                   *)

\* C1: when a batch of N eligible records finishes on the pool of
\* max_workers < N threads, the JSON body (blocking) or the complete frame
\* (streaming) reports processed + failed = total = N, and failed_records
\* holds exactly the record ids of the tasks that did not return true, once
\* each.
C1_CountsAddUp ==
    \A r \in Requests :
        (AllComplete(r) \/ StreamComplete(r)) =>
            LET s == Summary(r)
                N == Cardinality({i \in 1 .. Len(table) : NeedsProcessing(table[i])})
            IN  /\ s.processed + s.failed = s.total
                /\ s.total = N
                /\ N = Len(futures[r])
                /\ Len(s.failed_records) = s.failed
                /\ NoDuplicates(s.failed_records)
                /\ Range(s.failed_records) =
                     RecordIds(r, {k \in 1 .. Len(futures[r]) :
                                     futures[r][k].result /= "true"})

\* a blocking batch of more records than worker threads has answered
C1_Witness ==
    \E r \in Requests :
        /\ AllComplete(r)
        /\ resp[r].total > max_workers
        /\ resp[r].processed + resp[r].failed = resp[r].total

\* C2: a task that returns false (or raises) is counted as failed and listed
\* in failed_records, the loop goes on to collect every other task, no 500
\* answer or error frame is produced once tasks were submitted, and the
\* batch ends with its summary.
C2_FailuresDoNotAbort ==
    \A r \in Requests :
        futures[r] /= <<>> =>
            LET bad == {k \in Collected(r) : futures[r][k].result /= "true"}
            IN  /\ resp[r].code \in {0, 200}
                /\ \A i \in 1 .. Len(out[r]) : out[r][i].type /= "error"
                /\ req[r].failed = Cardinality(bad)
                /\ Len(req[r].failed_records) = req[r].failed
                /\ Range(req[r].failed_records) = RecordIds(r, bad)
                /\ req[r].pc = "done" =>
                     /\ Collected(r) = 1 .. Len(futures[r])
                     /\ AllComplete(r) \/ StreamComplete(r)

\* a streaming batch ended after several of its tasks returned false
C2_Witness ==
    \E r \in Requests :
        /\ StreamComplete(r)
        /\ Summary(r).failed >= 2
        /\ Len(Summary(r).failed_records) >= 2

\* C3: under fair scheduling, with every pipeline invocation returning, a
\* batch that starts submitting its N > max_workers tasks always ends with
\* its summary, in the blocking and in the streaming mode.
C3_BatchTerminates ==
    \A r \in Requests :
        (req[r].pc \in {"submit", "stream_submit"})
            ~> (AllComplete(r) \/ StreamComplete(r))

\* the collecting handler waits while every worker thread is busy and a
\* submitted task is still queued
C3_Witness ==
    \E r \in Requests :
        /\ req[r].pc = "collect"
        /\ NextYield(r) = {}
        /\ Cardinality(RunningFutures) = max_workers
        /\ work_queue /= <<>>

\* the pipeline invocations in flight for a record: the work items a worker
\* thread is running and the invocations on a translate_record handler thread
InFlight(id) ==
    Cardinality({f \in RunningFutures :
                    futures[f[1]][f[2]].record.record_id = id})
    + Cardinality({r \in Requests :
                    req[r].pc = "process" /\ req[r].records[1].record_id = id})

\* C4: at no moment are two pipeline invocations in flight for the same
\* record_id, whatever /translate/all and /translate/record requests are
\* being served.
C4_OneInFlightPerRecord ==
    \A id \in 1 .. Len(table) : InFlight(id) <= 1

----------------------------------------------------------------------------
(* Properties of the record lister.                                        *)

\* list_records has returned to translate_all
ListedAll(r) ==
    /\ req[r].kind = "all"
    /\ \/ req[r].pc \in {"submit", "as_completed", "collect", "finish"}
       \/ req[r].pc = "done" /\ resp[r].code = 200

\* list_records_streaming has yielded records_ready
ListedStream(r) ==
    /\ req[r].kind = "stream"
    /\ CountFrames(r, "records_ready") > 0

\* the record ids of the listing a handler obtained
ListedIds(r) == {req[r].records[i].record_id : i \in 1 .. Len(req[r].records)}

\* eligibility as the claim words it: origin a non-empty list, target-file
\* empty or absent, target-context empty or blank
WordedEligible(row) ==
    /\ row.origin \in {FileList, BareList}
    /\ row.tfile \in {Absent, EmptyStr, EmptyList}
    /\ row.tctx \in {Absent, EmptyStr, BlankStr, EmptyList}

\* C5 as stated: the listing filter accepts a record iff origin is a
\* non-empty list, target-file is empty or absent and target-context is
\* empty or blank, for every snapshot of the three columns.
C5_FilterAsWorded ==
    \A r \in Requests :
        ListedAll(r) =>
            \A i \in 1 .. Len(table) : (i \in ListedIds(r)) <=> WordedEligible(table[i])

\* C5 as amended: the listing filter accepts a record iff origin is a
\* non-empty list, target-file is not a non-empty list (absent, empty or any
\* scalar) and target-context is absent, empty, zero or a blank string; a
\* record with a non-empty list in target-file or a non-blank text in
\* target-context is not accepted.
C5_FilterAsCoded ==
    \A r \in Requests :
        ListedAll(r) =>
            \A i \in 1 .. Len(table) : (i \in ListedIds(r)) <=> NeedsProcessing(table[i])

\* the listing accepted a record whose target-file holds a scalar text
C5_Witness ==
    \E r \in Requests :
        /\ ListedAll(r)
        /\ table[1].tfile = Text
        /\ 1 \in ListedIds(r)

\* the rows of the pages a listing loop has fetched so far
FetchedRows(r) ==
    IF req[r].page_token = 0 /\ req[r].pc \in {"list", "stream_list"} THEN <<>>
    ELSE IF req[r].page_token = 0 THEN table
    ELSE SubSeq(table, 1, (req[r].page_token - 1) * pageSize)

\* C6: list_all returns exactly the eligible records of every page the store
\* served, in page order, and no record twice; while it pages, the list holds
\* the eligible records of the pages fetched so far.
C6_ListAllInPageOrder ==
    \A r \in Requests :
        /\ (req[r].kind = "all" /\ req[r].pc = "list") =>
              req[r].eligible_records = SelectSeq(FetchedRows(r), NeedsProcessing)
        /\ ListedAll(r) =>
              /\ req[r].records = SelectSeq(table, NeedsProcessing)
              /\ NoDuplicates([i \in 1 .. Len(req[r].records) |->
                                  req[r].records[i].record_id])

\* list_all returned eligible records of two different pages
C6_Witness ==
    \E r \in Requests :
        /\ ListedAll(r)
        /\ NumPages >= 2
        /\ Len(req[r].records) >= 2
        /\ req[r].records[1].record_id < req[r].records[2].record_id
        /\ req[r].records[1].record_id <= pageSize
        /\ req[r].records[2].record_id > pageSize

\* C7: for the same store state, the records carried by the RecordsReady
\* event of list_streaming are the records list_all returns, in the same
\* order.
C7_StreamingEqualsListAll ==
    \A r1, r2 \in Requests :
        (ListedAll(r1) /\ ListedStream(r2)) => req[r1].records = req[r2].records

\* both listings ran over a table of several pages that holds eligible and
\* ineligible rows
C7_Witness ==
    \E r1, r2 \in Requests :
        /\ ListedAll(r1) /\ ListedStream(r2)
        /\ NumPages >= 2
        /\ Len(req[r2].records) >= 1
        /\ Len(req[r2].records) < Len(table)

\* the listing loop of the streaming handler ended without an exception
StreamListingDone(r) ==
    /\ req[r].kind = "stream"
    /\ \/ req[r].pc \in {"stream_listed", "stream_submit", "as_completed",
                         "collect", "finish"}
       \/ /\ req[r].pc = "done"
          /\ out[r][Len(out[r])].message /= "exception"

\* C8: a listing that succeeds emits exactly one RecordsReady event, and
\* every PageLoaded event precedes it, so that it is the last event of
\* list_streaming; no listing emits it twice.
C8_OneRecordsReadyLast ==
    \A r \in Requests :
        /\ CountFrames(r, "records_ready") <= 1
        /\ \A i, j \in 1 .. Len(out[r]) :
              (out[r][i].type = "records_ready" /\ out[r][j].type = "page_loaded")
                  => j < i
        /\ StreamListingDone(r) => CountFrames(r, "records_ready") = 1

\* a listing of several pages succeeded: page_loaded frames, then records_ready
C8_Witness ==
    \E r \in Requests :
        /\ StreamListingDone(r)
        /\ CountFrames(r, "page_loaded") >= 1
        /\ CountFrames(r, "records_ready") = 1

\* C9: list_streaming yields one PageLoaded event per page fetched, the last
\* or only page included, so a listing that succeeds has written one or more
\* page_loaded frames.
C9_PageLoadedPerFetch ==
    \A r \in Requests :
        StreamListingDone(r) =>
            /\ CountFrames(r, "page_loaded") = req[r].page_number
            /\ CountFrames(r, "page_loaded") >= 1

\* n copies of a frame type
Repeat(type, n) == [i \in 1 .. n |-> type]

\* the frame types of a complete stream over N records whose listing wrote
\* pages page_loaded frames
StreamOrder(pages, N) ==
    <<"pagination_start">> \o Repeat("page_loaded", pages)
        \o <<"records_ready", "processing_start">> \o Repeat("progress", N)
        \o <<"complete">>

\* C10: a stream over N >= 1 eligible records is pagination_start, one or
\* more page_loaded, one records_ready, processing_start, one progress frame
\* per eligible record, one complete frame after the last task result; no
\* task is submitted before records_ready.
C10_FrameOrder ==
    \A r \in Requests :
        /\ (req[r].kind = "stream" /\ futures[r] /= <<>>) =>
              CountFrames(r, "records_ready") = 1
        /\ StreamComplete(r) =>
              /\ CountFrames(r, "page_loaded") >= 1
              /\ FrameTypes(r) = StreamOrder(CountFrames(r, "page_loaded"),
                                             Len(req[r].records))
              /\ {out[r][i].record_id : i \in {j \in 1 .. Len(out[r]) :
                                                  out[r][j].type = "progress"}}
                   = ListedIds(r)
              /\ Collected(r) = 1 .. Len(futures[r])

\* the rank of the completion of the i-th future the collection loop consumed
YieldedSeq(r, i) == futures[r][req[r].yielded[i]].finished_seq

\* the futures of request r that have finished and were not yet consumed
Unconsumed(r) ==
    {k \in 1 .. Len(futures[r]) :
        futures[r][k].state = "FINISHED" /\ k \notin Range(req[r].yielded)}

\* among the tasks that finished after the collection loop was entered,
\* outcomes are consumed in the order of completion; the tasks that finished
\* before are consumed before them
ConsumedInOrderOnceCollecting(r) ==
    /\ \A i, j \in 1 .. Len(req[r].yielded) :
          (i < j /\ YieldedSeq(r, i) > 0) => YieldedSeq(r, i) < YieldedSeq(r, j)
    /\ \A i \in 1 .. Len(req[r].yielded) : \A k \in Unconsumed(r) :
          YieldedSeq(r, i) > 0 => YieldedSeq(r, i) < futures[r][k].finished_seq

\* C11 as stated: outcomes are emitted (streaming) or counted (blocking) in
\* the order in which the pipeline invocations finished, whatever the
\* submission order, tasks that finish while others are still being
\* submitted included; so the first task to finish is the first one reported.
C11_CompletionOrder ==
    \A r \in Requests :
        /\ ConsumedInOrderOnceCollecting(r)
        /\ req[r].yielded /= <<>> => req[r].yielded[1] = req[r].first_finished

\* C11 as amended: the outcomes of the tasks that finished before the
\* collection loop was entered (while tasks were still being submitted) are
\* emitted or counted first, in no particular order; after them, the
\* outcomes of the other tasks are emitted or counted in the order in which
\* their invocations finished, whatever the submission order.
C11_CompletionOrderOnceCollecting ==
    \A r \in Requests : ConsumedInOrderOnceCollecting(r)

\* a batch consumed two tasks that finished after the collection loop was
\* entered, the later submitted one first, after a task that had finished
\* during submission
C11_Witness ==
    \E r \in Requests : \E i, j \in 1 .. Len(req[r].yielded) :
        /\ i < j
        /\ YieldedSeq(r, i) > 0
        /\ req[r].yielded[i] > req[r].yielded[j]
        /\ req[r].finished_before >= 1

----------------------------------------------------------------------------
(* Properties of the record pipeline.                                      *)

\* the pipeline invocations that have returned, on a worker thread or on the
\* thread of a translate_record handler
Invocations ==
    {[record_id |-> futures[r][k].record.record_id, result |-> futures[r][k].result,
      ran |-> futures[r][k].ran, staged |-> futures[r][k].staged] :
        <<r, k>> \in {f \in Requests \X (1 .. NumRecords + MaxRows + 1) :
                        /\ f[2] <= Len(futures[f[1]])
                        /\ futures[f[1]][f[2]].state = "FINISHED"}}
    \cup
    {[record_id |-> req[r].records[1].record_id, result |-> req[r].result,
      ran |-> req[r].ran, staged |-> req[r].staged] :
        r \in {q \in Requests : req[q].result /= "none"}}

StageNames == <<"download", "convert", "extract", "upload">>

\* the invocation ran stage number n and that stage failed
FailedAt(inv, n) ==
    /\ Len(inv.ran) >= n
    /\ inv.ran[n].stage = StageNames[n]
    /\ ~inv.ran[n].ok

----------------------------------------------------------------------------
(* Properties of the HTTP handlers.                                        *)

\* translate_record found the record of request r and applied its guard,
\* and the row is still as the guard saw it
Guarded(r) ==
    /\ req[r].kind = "record"
    /\ req[r].record_id \in 1 .. Len(table)
    /\ req[r].result /= "true"
    /\ \/ req[r].pc \in {"process", "cleanup"}
       \/ req[r].pc = "done" /\ resp[r].code /= 404

\* the guard let the record through to the pipeline
Accepted(r) ==
    \/ req[r].pc \in {"process", "cleanup"}
    \/ req[r].pc = "done" /\ resp[r].code \in {200, 500}

\* the guard answered 400
Rejected(r) == req[r].pc = "done" /\ resp[r].code = 400

OriginPresent(row) == row.origin \in {FileList, BareList}

\* how many of the two target columns hold something: a non-empty list in
\* target-file, anything but nothing and blanks in target-context
TargetsFilled(row) ==
    (IF row.tfile \in {FileList, BareList} THEN 1 ELSE 0)
    + (IF row.tctx \in {Absent, EmptyStr, BlankStr, Zero, EmptyList} THEN 0 ELSE 1)

\* C17 as stated: the guard of the single-record endpoint rejects a record
\* with empty origin, accepts and processes a record with origin present and
\* exactly one target column filled, and rejects a record with both target
\* columns filled.
C17_GuardAsWorded ==
    \A r \in Requests :
        Guarded(r) =>
            LET row == table[req[r].record_id]
            IN  /\ ~OriginPresent(row) => Rejected(r)
                /\ (OriginPresent(row) /\ TargetsFilled(row) = 1) => Accepted(r)
                /\ (OriginPresent(row) /\ TargetsFilled(row) = 2) => Rejected(r)

\* C17 as amended: the guard rejects a record with empty origin with the
\* "no file in origin" error, rejects a record with origin present and one
\* or both target columns filled with the "targets already filled" error,
\* and accepts and processes a record only when origin is present and both
\* target columns are empty.
C17_GuardAsCoded ==
    \A r \in Requests :
        Guarded(r) =>
            LET row == table[req[r].record_id]
            IN  /\ ~OriginPresent(row) =>
                      (Rejected(r) /\ resp[r].message = "no_origin")
                /\ (OriginPresent(row) /\ TargetsFilled(row) >= 1) =>
                      (Rejected(r) /\ resp[r].message = "targets_filled")
                /\ (OriginPresent(row) /\ TargetsFilled(row) = 0) => Accepted(r)

\* a record with an attachment in origin and only target-context filled was
\* rejected
C17_Witness ==
    \E r \in Requests :
        /\ Guarded(r)
        /\ OriginPresent(table[req[r].record_id])
        /\ table[req[r].record_id].tfile = Absent
        /\ table[req[r].record_id].tctx = Text
        /\ Rejected(r)
        /\ resp[r].message = "targets_filled"

\* the answers of the translate_record requests that were served
RecordAnswers ==
    \A r \in Requests :
        (req[r].kind = "record" /\ req[r].pc = "done") =>
            /\ resp[r].code \in {200, 400, 404, 500}
            /\ req[r].record_id = 0 => resp[r].code = 400
            /\ (req[r].record_id > Len(table)) => resp[r].code = 404
            /\ resp[r].code = 200 <=> req[r].result = "true"
            /\ resp[r].code = 500 <=> req[r].result = "false"
            /\ resp[r].code \in {400, 404} =>
                  (req[r].result = "none" /\ req[r].ran = <<>> /\ futures[r] = <<>>)
            /\ (resp[r].code = 400 /\ req[r].record_id /= 0) =>
                  resp[r].message \in {"no_origin", "targets_filled"}

\* a step writes the store only when a pipeline invocation returns true in it
StoreWrittenByInvocation ==
    table' /= table =>
        \/ \E r \in Requests : req[r].result = "none" /\ req'[r].result = "true"
        \/ \E r \in Requests : \E k \in 1 .. Len(futures[r]) :
              futures[r][k].state = "RUNNING" /\ futures'[r][k].result = "true"

C19_BatchAnswers200 ==
    \A r \in Requests :
        (req[r].kind = "all" /\ req[r].pc = "done") =>
            /\ resp[r].code \in {200, 500}
            /\ futures[r] /= <<>> =>
                  /\ resp[r].code = 200
                  /\ resp[r].status = "success"
                  /\ resp[r].total = Len(futures[r])
                  /\ resp[r].failed =
                       Cardinality({k \in 1 .. Len(futures[r]) :
                                       futures[r][k].result /= "true"})
            /\ resp[r].code = 500 =>
                  (futures[r] = <<>> /\ resp[r].message = "store_error")

\* a batch in which every record failed was answered 200
C19_Witness ==
    \E r \in Requests :
        /\ AllComplete(r)
        /\ resp[r].code = 200
        /\ resp[r].total >= 2
        /\ resp[r].failed = resp[r].total

\* C20: when the listing finds no eligible record, the batch answers at
\* once with its terminal "no records" response (the JSON body, or the
\* frame of the stream) and submits no task to the pool; a task is
\* submitted only for a listing that is not empty.
C20_NoRecordsShortCircuit ==
    \A r \in Requests :
        /\ (ListedAll(r) /\ req[r].records = <<>>) =>
              /\ req[r].pc = "done"
              /\ resp[r].code = 200 /\ resp[r].message = "no_records"
              /\ resp[r].total = 0
              /\ futures[r] = <<>>
        /\ (StreamListingDone(r) /\ req[r].records = <<>>) =>
              /\ req[r].pc \in {"stream_listed", "done"}
              /\ futures[r] = <<>>
              /\ CountFrames(r, "processing_start") = 0
              /\ req[r].pc = "done" =>
                    /\ out[r][Len(out[r])].message = "no_records"
                    /\ out[r][Len(out[r]) - 1].type = "records_ready"
        /\ futures[r] /= <<>> => req[r].records /= <<>>

\* a blocking and a streaming batch both ended on an empty listing of a
\* table that has rows
C20_Witness ==
    \E r1, r2 \in Requests :
        /\ Len(table) >= 1
        /\ ListedAll(r1) /\ req[r1].records = <<>> /\ resp[r1].message = "no_records"
        /\ StreamListingDone(r2) /\ req[r2].records = <<>> /\ req[r2].pc = "done"
        /\ out[r2][Len(out[r2])].message = "no_records"

----------------------------------------------------------------------------
(* End-to-end and cross-component properties.                              *)

\* C21: on the store of rows A, B and C, with a store and a converter that
\* do not fail, list_all returns exactly [A] and the batch run on [A]
\* answers total 1, processed 1, failed 0 and an empty failed_records.
C21_EndToEnd ==
    \A r \in Requests :
        /\ ListedAll(r) =>
              (Len(req[r].records) = 1 /\ req[r].records[1].record_id = 1)
        /\ AllComplete(r) =>
              /\ resp[r].total = 1
              /\ resp[r].processed = 1
              /\ resp[r].failed = 0
              /\ resp[r].failed_records = <<>>

\* the records for which an invocation started by request r returned true
ProcessedBy(r) ==
    {futures[r][k].record.record_id :
        k \in {j \in 1 .. Len(futures[r]) : futures[r][j].result = "true"}}
    \cup (IF req[r].result = "true" THEN {req[r].records[1].record_id} ELSE {})

\* the listing of a batch request has ended without an exception
Listed(r) == ListedAll(r) \/ StreamListingDone(r)

----------------------------------------------------------------------------
(* The bound on concurrent invocations.                                    *)

\* the requests whose handler thread is inside process_record itself: the
\* translate_record handler calls it directly, not through the executor
HandlerInvocations ==
    {r \in Requests : req[r].kind = "record" /\ req[r].pc = "process"}

\* the invocations of process_record executing now, on the worker threads of
\* the executor and on the handler threads
Executing == Cardinality(RunningFutures) + Cardinality(HandlerInvocations)

\* C23: at every moment at most 5 invocations of the record pipeline are
\* executing in the process, counted over the requests of every endpoint
\* that are being served.
C23_AtMostFiveExecuting == Executing <= max_workers

----------------------------------------------------------------------------
(* The states of a streaming batch.                                        *)

\* the positions of the frames of a type in the stream of request r
FramesAt(r, type) == {i \in 1 .. Len(out[r]) : out[r][i].type = type}

\* the terminal frames
TerminalFrames == {"complete", "error"}

\* the i-th frame of the stream of request r was written after the result
\* of the last task had been collected: processing had started and a
\* progress frame for each of the tasks precedes it
AfterLastResult(r, i) ==
    \E s \in FramesAt(r, "processing_start") :
        /\ s < i
        /\ Cardinality({p \in FramesAt(r, "progress") : p < i}) = out[r][s].total

----------------------------------------------------------------------------
(* The counters of the progress frames.                                    *)

\* how many progress frames the stream of request r holds up to position i
ProgressUpTo(r, i) == Cardinality({p \in FramesAt(r, "progress") : p <= i})

----------------------------------------------------------------------------
(* A store that fails while the table is listed.                           *)

\* the listing of request r was aborted by a failure of the store
ListingAborted(r) ==
    /\ req[r].pc = "done"
    /\ \/ req[r].kind = "all" /\ resp[r].message = "store_error"
       \/ req[r].kind = "stream" /\ FramesAt(r, "records_ready") = {}

\* C26: when the store fails on a page the listing is aborted: the handler
\* is handed no record, not even those of the pages fetched before, and
\* submits no task; the blocking endpoint answers 500 and the streaming
\* endpoint ends its stream with a single error frame.
C26_ListingAborted ==
    \A r \in Requests :
        /\ ListingAborted(r) =>
              /\ req[r].records = <<>>
              /\ futures[r] = <<>>
              /\ req[r].kind = "all" =>
                    (resp[r].code = 500 /\ resp[r].status = "error")
              /\ req[r].kind = "stream" =>
                    /\ FramesAt(r, "error") = {Len(out[r])}
                    /\ \A i \in 1 .. Len(out[r]) - 1 :
                          out[r][i].type \in {"pagination_start", "page_loaded"}
        /\ futures[r] /= <<>> =>
              /\ req[r].page_token = 0
              /\ req[r].records = req[r].eligible_records

\* the store failed after a page that held an eligible record, in a blocking
\* batch and in a streaming batch
C26_Witness ==
    \E r1, r2 \in Requests :
        /\ req[r1].kind = "all" /\ ListingAborted(r1)
        /\ req[r1].eligible_records /= <<>>
        /\ req[r2].kind = "stream" /\ ListingAborted(r2)
        /\ req[r2].eligible_records /= <<>>
        /\ FramesAt(r2, "page_loaded") /= {}

----------------------------------------------------------------------------
(* The page events of the streaming listing.                               *)

\* the position in the stream of request r of its k-th page_loaded frame
PageLoadedAt(r, k) ==
    CHOOSE i \in FramesAt(r, "page_loaded") :
        Cardinality({j \in FramesAt(r, "page_loaded") : j <= i}) = k

\* the eligible records of the rows of page p
EligibleOfPage(p) == SelectSeq(page_items(p), streaming_eligible)

\* eligible_in_page summed over the first k page_loaded frames of request r
RECURSIVE EligibleInPages(_, _)
EligibleInPages(r, k) ==
    IF k = 0 THEN 0
    ELSE out[r][PageLoadedAt(r, k)].eligible_in_page + EligibleInPages(r, k - 1)

\* C27: the k-th page_loaded event of a streaming listing has page_number
\* k, records_in_page and eligible_in_page equal to the counts of the k-th
\* page, total_eligible_so_far equal to eligible_in_page summed over the
\* events 1..k, has_more_pages true exactly when the store returned a page
\* token with that page, and as record list the eligible records of that
\* page; records_ready reports as total_pages the number of pages fetched.
C27_PageEvents ==
    \A r \in Requests :
        /\ \A k \in 1 .. Cardinality(FramesAt(r, "page_loaded")) :
              LET frame == out[r][PageLoadedAt(r, k)]
              IN  /\ frame.page_number = k
                  /\ frame.records_in_page = Len(page_items(k))
                  /\ frame.eligible_in_page = Len(EligibleOfPage(k))
                  /\ frame.total_eligible_so_far = EligibleInPages(r, k)
                  /\ frame.has_more_pages <=> next_token(k) /= 0
                  /\ PageLoadedAt(r, k) = Len(out[r]) =>
                        req[r].page_records = EligibleOfPage(k)
        /\ \A i \in FramesAt(r, "records_ready") :
              /\ out[r][i].total_pages = req[r].page_number
              /\ out[r][i].total_pages = NumPages

\* a listing over three pages that has written its second page_loaded
\* frame, for a page without eligible record after a page with one
C27_Witness ==
    \E r \in Requests :
        /\ Cardinality(FramesAt(r, "page_loaded")) = 2
        /\ Len(out[r]) = PageLoadedAt(r, 2)
        /\ out[r][PageLoadedAt(r, 1)].eligible_in_page = 1
        /\ out[r][PageLoadedAt(r, 2)].eligible_in_page = 0
        /\ out[r][PageLoadedAt(r, 2)].total_eligible_so_far = 1
        /\ req[r].page_records = <<>>

----------------------------------------------------------------------------
(* A failed extraction.                                                    *)

\* the requests whose invocation has returned and whose cleanup_files() has
\* not run yet
JustReturned ==
    {r \in Requests : req[r].kind = "record" /\ req[r].pc = "cleanup"}

----------------------------------------------------------------------------
(* What an invocation writes to the store.                                 *)

\* the invocations that return in this step: the record and the result
Returning ==
    {<<futures[f[1]][f[2]].record.record_id, futures'[f[1]][f[2]].result>> :
        f \in {g \in RunningFutures : futures'[g[1]][g[2]].state = "FINISHED"}}
    \cup
    {<<req[r].records[1].record_id, req'[r].result>> :
        r \in {q \in HandlerInvocations : req'[q].result /= "none"}}

\* row id of the store gets both target columns in this step and nothing
\* else of the store changes
WritesBothTargetsOf(id) ==
    /\ table[id].tfile /= table'[id].tfile
    /\ table[id].tctx /= table'[id].tctx
    /\ table' = [table EXCEPT ![id].tfile = table'[id].tfile,
                              ![id].tctx = table'[id].tctx]

\* a step changes the store only as the update of the invocation that
\* returns true in it, and an invocation that returns false changes nothing
StoreStep ==
    /\ table' /= table =>
          \E inv \in Returning : inv[2] = "true" /\ WritesBothTargetsOf(inv[1])
    /\ (\E inv \in Returning : inv[2] /= "true") => table' = table

\* a record none of whose invocations returned true is as eligible as before
StillEligible ==
    \A inv \in Invocations :
        (\A other \in Invocations :
            other.record_id = inv.record_id => other.result /= "true")
        => list_records_eligible(table[inv.record_id])

----------------------------------------------------------------------------
(* The staged files of an invocation in flight.                            *)

\* the invocations in flight, on a worker thread or on a handler thread:
\* the record and the files staged so far
InFlightInvocations ==
    {[record_id |-> futures[f[1]][f[2]].record.record_id,
      staged |-> futures[f[1]][f[2]].staged] : f \in RunningFutures}
    \cup
    {[record_id |-> req[r].records[1].record_id, staged |-> req[r].staged] :
        r \in HandlerInvocations}

\* how many invocations, in flight or not, were ever started or queued for
\* the record
InvocationsFor(id) ==
    Cardinality({f \in Requests \X (1 .. NumRecords + MaxRows + 1) :
                    /\ f[2] <= Len(futures[f[1]])
                    /\ futures[f[1]][f[2]].record.record_id = id})
    + Cardinality({r \in Requests :
                    /\ req[r].kind = "record"
                    /\ req[r].records /= <<>>
                    /\ req[r].records[1].record_id = id})

----------------------------------------------------------------------------
(* The two modes of the batch endpoint.                                    *)

\* request a, blocking, and request s, streaming, have both ended; both
\* listed the same records of the same store and each record had the same
\* outcome in both
SameBatch(a, s) ==
    /\ req[a].kind = "all" /\ req[a].pc = "done" /\ ListedAll(a)
    /\ req[s].kind = "stream" /\ req[s].pc = "done" /\ StreamListingDone(s)
    /\ req[a].records = req[s].records
    /\ Len(futures[a]) = Len(futures[s])
    /\ \A k \in 1 .. Len(futures[a]) : futures[a][k].result = futures[s][k].result

\* C31: for the same store and the same outcomes of the records, the
\* terminal frame of the streaming mode and the JSON body of the blocking
\* mode report the same status, total, processed, failed and the same set of
\* failed record ids, whatever the number of eligible records, zero
\* included.
C31_ModesAgree ==
    \A a, s \in Requests :
        SameBatch(a, s) =>
            /\ Summary(s).status = Summary(a).status
            /\ Summary(s).total = Summary(a).total
            /\ Summary(s).processed = Summary(a).processed
            /\ Summary(s).failed = Summary(a).failed
            /\ Range(Summary(s).failed_records) = Range(Summary(a).failed_records)

----------------------------------------------------------------------------
(* A store that fails while a record is fetched.                           *)

\* the get-by-id call of the single-record request r raised
GetRaised(r) == req[r].kind = "record" /\ req[r].get_raised

\* C32: when the get-by-id call of the store fails with an error, the
\* single-record endpoint answers 404 "not found", as it does for a record
\* that does not exist, not 500, and starts no invocation of the pipeline.
C32_GetErrorAnswers404 ==
    \A r \in Requests :
        GetRaised(r) =>
            /\ req[r].pc = "done"
            /\ resp[r].code = 404 /\ resp[r].message = "not_found"
            /\ req[r].records = <<>>
            /\ req[r].result = "none" /\ req[r].ran = <<>>
            /\ futures[r] = <<>>

\* the get-by-id call raised for a record that exists and passes the guard,
\* and the request was answered 404
C32_Witness ==
    \E r \in Requests :
        /\ GetRaised(r)
        /\ req[r].record_id \in 1 .. Len(table)
        /\ record_guard(table[req[r].record_id]) = "ok"
        /\ resp[r].code = 404

====
